---- MODULE Spec2Model ----
(***************************************************************************)
(* A model of smolmsg's message codec: the base-62 identifier encoder      *)
(* (Message.EncodeId / IdString), the hashing and counting reader          *)
(* (HashingCountingReader) and the section parser (Message.ParseReader).   *)
(*                                                                         *)
(* Bytes are one-character strings; the byte 0x00 is written NUL.          *)
(* A uint32 is a pair <<hi, lo>> of 16-bit halves, because TLC's integers  *)
(* are 32-bit signed: every operation on such a pair computes              *)
(* exactly the value the Go code computes on the uint32/uint64.            *)
(***************************************************************************)
EXTENDS Integers, Sequences, FiniteSets, TLC

VARIABLES
  eid,    \* EncodeId: the receiver's m.id, 24 bytes (numbers 0..255)
  bp,     \* EncodeId: the words still to divide (bp), each <<hi, lo>>
  dst,    \* EncodeId: the destination buffer, DstLen bytes
  n,      \* EncodeId: the write position in dst (0-based, as in the code)
  out,    \* EncodeId: the slice returned
  epc     \* EncodeId: "loop" while dividing, "done" once it has returned

idvars == <<eid, bp, dst, n, out, epc>>

VARIABLES
  secs,    \* the sections the stream of the first parse is made of (input)
  stream,  \* the bytes of the source being parsed
  src,     \* how the source hands its bytes out: [chunk, eofWith, failAt, sticky]
  srcsize, \* ParseReader's size hint
  pretime, \* the Unix time of m.time before the parse
  m,       \* the Message being filled
  cr,      \* HashingCountingReader: [off, nread, hash, failed]
  br,      \* bufio.Reader over cr: [buf, err, size]
  cur,     \* the line br.ReadLine returned last, until its field is handled
  lineno,  \* ParseReader's lineno
  fileno,  \* ParseReader's fileno
  res,     \* what ParseReader returned: [kind, line, ...]; kind "running" before
  marks,   \* history: the payload sections handled, with their true offsets
  run,     \* 1 for the first parse, 2 for the second parse of the same input
  variant, \* what the second parse changes: "none" in the first parse
  prev     \* the first parse's inputs and outcome, kept for the second parse

pvars == <<secs, stream, src, srcsize, pretime, m, cr, br, cur, lineno, fileno, res, marks,
           run, variant, prev>>

VARIABLES
  stamp,   \* UpdateIdFromTime on its own: [pc, time, id, before, err]
  sd,      \* the shutdown goroutine, its handlers and its context
  db,      \* the index: its tables and the PutMessage calls made
  ms       \* the inbox scan, its loaders, the list command and the db handle

xvars == <<stamp, sd, db, ms>>

vars == <<eid, bp, dst, n, out, epc, secs, stream, src, srcsize, pretime, m,
          cr, br, cur,
          lineno, fileno, res, marks, run, variant, prev, stamp, sd, db, ms>>

----------------------------------------------------------------------------
(* Identifier encoding                                                     *)

NUL == "NUL"

base62Characters ==
  << "0","1","2","3","4","5","6","7","8","9",
     "A","B","C","D","E","F","G","H","I","J","K","L","M",
     "N","O","P","Q","R","S","T","U","V","W","X","Y","Z",
     "a","b","c","d","e","f","g","h","i","j","k","l","m",
     "n","o","p","q","r","s","t","u","v","w","x","y","z" >>

dstBase == 62

\* srcBase = 0x100000000 is srcBaseHalf * srcBaseHalf.
srcBaseHalf == 65536

IdLen == 24

DstLen == 50

\* The 32-bit words an input id is built from (big-endian bytes).
IdWords == { <<0,0,0,0>>, <<0,0,0,62>>, <<255,255,255,255>> }

\* parts[i] of EncodeId: the i-th big-endian 32-bit word of m.id (i in 1..6).
Parts(idb) ==
  [ i \in 1..6 |->
      << idb[4*i-3] * 256 + idb[4*i-2], idb[4*i-1] * 256 + idb[4*i] >> ]

\* One pass of the inner loop of EncodeId over the words bpw, from word i on:
\* value = c + remainder * 2^32, digit = value / 62, remainder = value % 62;
\* a zero digit is appended only behind a digit already kept.
DivStep(c, remainder) ==
  LET t1 == remainder * srcBaseHalf + c[1]
      t2 == (t1 % dstBase) * srcBaseHalf + c[2]
  IN  [ digit |-> << t1 \div dstBase, t2 \div dstBase >>,
        remainder |-> t2 % dstBase ]

\* Divide with every zero digit dropped, also behind a digit already kept.
RECURSIVE DivideDropZero(_,_,_,_)
DivideDropZero(bpw, i, quotient, remainder) ==
  IF i > Len(bpw) THEN [ quotient |-> quotient, remainder |-> remainder ]
  ELSE LET d == DivStep(bpw[i], remainder)
       IN  DivideDropZero(bpw, i + 1,
                    IF d.digit # <<0, 0>>
                      THEN Append(quotient, d.digit) ELSE quotient,
                    d.remainder)

RECURSIVE Divide(_,_,_,_)
Divide(bpw, i, quotient, remainder) ==
  IF i > Len(bpw) THEN [ quotient |-> quotient, remainder |-> remainder ]
  ELSE LET d == DivStep(bpw[i], remainder)
       IN  Divide(bpw, i + 1,
                  IF Len(quotient) # 0 \/ d.digit # <<0, 0>>
                    THEN Append(quotient, d.digit) ELSE quotient,
                  d.remainder)

\* IdString: a zeroed 50-byte buffer is handed to EncodeId.
Base62Index(c) == (CHOOSE i \in 1..dstBase : base62Characters[i] = c) - 1

IsBase62(c) == \E i \in 1..dstBase : base62Characters[i] = c


----------------------------------------------------------------------------
(* Byte strings                                                            *)

Min(a, b) == IF a < b THEN a ELSE b

RECURSIVE IndexFrom(_,_,_)
IndexFrom(s, c, i) ==
  IF i > Len(s) THEN -1 ELSE IF s[i] = c THEN i - 1 ELSE IndexFrom(s, c, i + 1)

\* bytes.IndexByte: the 0-based index of the first c in s, -1 when absent.
IndexByte(s, c) == IndexFrom(s, c, 1)

\* The Go slices s[p:] and s[:p].
SliceFrom(s, p) == SubSeq(s, p + 1, Len(s))

SliceTo(s, p) == SubSeq(s, 1, p)

\* The white space bytes.TrimSpace strips (the ASCII ones that can be written
\* here; no input of the model holds another one).
WhiteSpace == { " ", "\t", "\n", "\r", "\f" }

RECURSIVE TrimLeft(_)
TrimLeft(s) ==
  IF Len(s) > 0 /\ s[1] \in WhiteSpace THEN TrimLeft(Tail(s)) ELSE s

RECURSIVE TrimRight(_)
TrimRight(s) ==
  IF Len(s) > 0 /\ s[Len(s)] \in WhiteSpace
    THEN TrimRight(SubSeq(s, 1, Len(s) - 1)) ELSE s

TrimSpace(s) == TrimRight(TrimLeft(s))

HasPrefix(s, pre) == Len(s) >= Len(pre) /\ SubSeq(s, 1, Len(pre)) = pre

Upper == << "A","B","C","D","E","F","G","H","I","J","K","L","M",
            "N","O","P","Q","R","S","T","U","V","W","X","Y","Z" >>

Lower == << "a","b","c","d","e","f","g","h","i","j","k","l","m",
            "n","o","p","q","r","s","t","u","v","w","x","y","z" >>

\* strings.ToLower on the ASCII letters (norm.NFC leaves ASCII unchanged).
ToLower(s) ==
  [ i \in 1..Len(s) |->
      IF \E k \in 1..26 : Upper[k] = s[i]
        THEN Lower[CHOOSE k \in 1..26 : Upper[k] = s[i]]
        ELSE s[i] ]

IsDigit(c) == c \in { "0","1","2","3","4","5","6","7","8","9" }

DigitVal(c) == Base62Index(c)

----------------------------------------------------------------------------
(* The source, the hashing reader and the buffered reader                  *)

\* r.Reader.Read(p) with len(p) = plen at source offset off. The source hands
\* out at most src.chunk bytes per call; at the end of the stream it reports
\* io.EOF either with the last bytes (src.eofWith) or by a later empty read.
SrcRead(off, plen) ==
  LET remaining == Len(stream) - off
      k == Min(Min(plen, src.chunk), remaining)
  IN  IF plen = 0 THEN [ n |-> 0, err |-> "nil" ]
      ELSE IF remaining = 0 THEN [ n |-> 0, err |-> "EOF" ]
      ELSE [ n |-> k,
             err |-> IF src.eofWith /\ k = remaining THEN "EOF" ELSE "nil" ]

\* r.Reader.Read(p) of a source that fails: the bytes in front of offset
\* src.failAt come as from any source; the read that would go on from there
\* reports the I/O error EIO instead, together with the bytes in front of it
\* (src.eofWith) or alone. A source that is not src.sticky fails once and
\* then goes on; src.failAt = -1 is a source that never fails.
SrcReadOrFail(c, plen) ==
  IF src.failAt = -1 \/ (c.failed /\ ~src.sticky) THEN SrcRead(c.off, plen)
  ELSE IF plen = 0 THEN [ n |-> 0, err |-> "nil" ]
  ELSE IF src.failAt = c.off THEN [ n |-> 0, err |-> "EIO" ]
  ELSE [ n |-> Min(Min(plen, src.chunk), src.failAt - c.off),
         err |-> IF src.eofWith
                      /\ Min(plen, src.chunk) >= src.failAt - c.off
                   THEN "EIO" ELSE "nil" ]

\* The answer of HashingCountingReader.Read to the source's answer r: the n
\* bytes go to the caller; they are counted and written to the hash only when
\* err == nil. The digest is kept as the byte string written to it (a
\* collision-free digest).
Counted(c, r) ==
  [ cr |-> [ off |-> c.off + r.n,
             nread |-> IF r.err = "nil" THEN c.nread + r.n ELSE c.nread,
             hash |-> IF r.err = "nil"
                        THEN c.hash \o SubSeq(stream, c.off + 1, c.off + r.n)
                        ELSE c.hash,
             failed |-> c.failed \/ r.err = "EIO" ],
    data |-> SubSeq(stream, c.off + 1, c.off + r.n), err |-> r.err ]

\* HashingCountingReader.Read(p) with len(p) = plen.
CrRead(c, plen) == Counted(c, SrcReadOrFail(c, plen))

\* bufio.NewReaderSize raises a size below 16 to 16.
minReadBufferSize == 16

\* The readers are handed around as f = [br, cr]: the bufio.Reader and the
\* HashingCountingReader below it.

\* bufio.Reader.fill after its read r: the bytes join the buffer, an error is
\* kept for later.
Filled(f, r) ==
  [ br |-> [ f.br EXCEPT !.buf = f.br.buf \o r.data,
                         !.err = IF r.err # "nil" THEN r.err ELSE f.br.err ],
    cr |-> r.cr ]

\* bufio.Reader.fill: one read into the free part of the buffer (the source
\* never returns 0 bytes without an error, so the retry loop runs once).
Fill(f) == Filled(f, CrRead(f.cr, f.br.size - Len(f.br.buf)))

\* bufio.Reader.ReadSlice('\n'): [br, cr, line, err].
RECURSIVE ReadSlice(_)
ReadSlice(f) ==
  IF IndexByte(f.br.buf, "\n") >= 0
    THEN [ br |-> [ f.br EXCEPT
                      !.buf = SliceFrom(f.br.buf, IndexByte(f.br.buf, "\n") + 1) ],
           cr |-> f.cr,
           line |-> SliceTo(f.br.buf, IndexByte(f.br.buf, "\n") + 1),
           err |-> "nil" ]
  ELSE IF f.br.err # "nil"
    THEN [ br |-> [ f.br EXCEPT !.buf = << >>, !.err = "nil" ], cr |-> f.cr,
           line |-> f.br.buf, err |-> f.br.err ]
  ELSE IF Len(f.br.buf) >= f.br.size
    THEN [ br |-> [ f.br EXCEPT !.buf = << >> ], cr |-> f.cr,
           line |-> f.br.buf, err |-> "ErrBufferFull" ]
  ELSE ReadSlice(Fill(f))

\* What bufio.Reader.ReadLine makes of ReadSlice's answer r:
\* [br, cr, line, isPrefix, err].
LineOf(r) ==
  IF r.err = "ErrBufferFull"
    THEN IF Len(r.line) > 0 /\ r.line[Len(r.line)] = "\r"
           THEN [ br |-> [ r.br EXCEPT !.buf = << "\r" >> ], cr |-> r.cr,
                  line |-> SliceTo(r.line, Len(r.line) - 1),
                  isPrefix |-> TRUE, err |-> "nil" ]
           ELSE [ br |-> r.br, cr |-> r.cr, line |-> r.line,
                  isPrefix |-> TRUE, err |-> "nil" ]
  ELSE IF Len(r.line) = 0
    THEN [ br |-> r.br, cr |-> r.cr, line |-> << >>,
           isPrefix |-> FALSE, err |-> r.err ]
  ELSE [ br |-> r.br, cr |-> r.cr,
         line |-> SliceTo(r.line,
                    Len(r.line)
                      - (IF r.line[Len(r.line)] # "\n" THEN 0
                         ELSE IF Len(r.line) > 1 /\ r.line[Len(r.line) - 1] = "\r"
                           THEN 2
                         ELSE 1)),
         isPrefix |-> FALSE, err |-> "nil" ]

\* bufio.Reader.ReadLine.
ReadLine(f) == LineOf(ReadSlice(f))

\* Copied with the rest of the buffer lost.
CopiedLosesRest(f, plen) ==
  [ br |-> [ f.br EXCEPT !.buf = << >> ],
    cr |-> f.cr,
    data |-> SliceTo(f.br.buf, Min(plen, Len(f.br.buf))),
    err |-> "nil" ]

\* bufio.Reader.Read into p, len(p) = plen, from the buffer: [br, cr, data, err].
Copied(f, plen) ==
  [ br |-> [ f.br EXCEPT !.buf = SliceFrom(f.br.buf, Min(plen, Len(f.br.buf))) ],
    cr |-> f.cr,
    data |-> SliceTo(f.br.buf, Min(plen, Len(f.br.buf))),
    err |-> "nil" ]

\* bufio.Reader.Read with an empty buffer and len(p) >= len(b.buf): the read r
\* went straight into p.
ReadDirect(f, r) ==
  [ br |-> f.br, cr |-> r.cr, data |-> r.data, err |-> r.err ]

\* bufio.Reader.Read with an empty buffer and a small p: the one read r went
\* into the buffer, and p gets its share.
ReadOnce(f, plen, r) ==
  IF Len(r.data) = 0
    THEN [ br |-> f.br, cr |-> r.cr, data |-> << >>, err |-> r.err ]
    ELSE Copied([ br |-> [ f.br EXCEPT !.buf = r.data, !.err = r.err ],
                  cr |-> r.cr ], plen)

\* bufio.Reader.Read(p) with len(p) = plen > 0.
BufRead(f, plen) ==
  IF Len(f.br.buf) > 0 THEN Copied(f, plen)
  ELSE IF f.br.err # "nil"
    THEN [ br |-> [ f.br EXCEPT !.err = "nil" ], cr |-> f.cr,
           data |-> << >>, err |-> f.br.err ]
  ELSE IF plen >= f.br.size THEN ReadDirect(f, CrRead(f.cr, plen))
  ELSE ReadOnce(f, plen, CrRead(f.cr, f.br.size))

\* io.ReadFull(br, buf) with len(buf) = size: Read until size bytes are there
\* or a Read fails; a failure after some bytes is io.ErrUnexpectedEOF when it
\* was io.EOF. ReadFullFrom goes on with acc read so far; ReadFullStep takes
\* the answer r of one Read.
RECURSIVE ReadFullFrom(_,_,_)
RECURSIVE ReadFullStep(_,_,_)
ReadFullStep(size, acc, r) ==
  IF r.err = "nil" THEN ReadFullFrom(r, size, acc \o r.data)
  ELSE [ br |-> r.br, cr |-> r.cr, data |-> acc \o r.data,
         err |-> IF Len(acc \o r.data) >= size THEN "nil"
                 ELSE IF Len(acc \o r.data) > 0 /\ r.err = "EOF"
                   THEN "ErrUnexpectedEOF"
                 ELSE r.err ]

ReadFullFrom(f, size, acc) ==
  IF Len(acc) >= size
    THEN [ br |-> f.br, cr |-> f.cr, data |-> acc, err |-> "nil" ]
    ELSE ReadFullStep(size, acc, BufRead(f, size - Len(acc)))

ReadFull(f, size) == ReadFullFrom(f, size, << >>)

\* bufio.Reader.Discard(n) for n > 0: skip buffered bytes, filling the buffer
\* when it is empty, until n bytes are skipped or a read has failed.
\* DiscardSkip is one turn of the loop behind the fill: [br, cr, discarded, err].
RECURSIVE DiscardFrom(_,_,_)
RECURSIVE DiscardSkip(_,_,_)
DiscardSkip(f, nn, remain) ==
  IF remain <= Len(f.br.buf)
    THEN [ br |-> [ f.br EXCEPT !.buf = SliceFrom(f.br.buf, remain) ],
           cr |-> f.cr, discarded |-> nn, err |-> "nil" ]
  ELSE IF f.br.err # "nil"
    THEN [ br |-> [ f.br EXCEPT !.buf = << >>, !.err = "nil" ], cr |-> f.cr,
           discarded |-> nn - (remain - Len(f.br.buf)), err |-> f.br.err ]
  ELSE DiscardFrom([ br |-> [ f.br EXCEPT !.buf = << >> ], cr |-> f.cr ],
                   nn, remain - Len(f.br.buf))

DiscardFrom(f, nn, remain) ==
  DiscardSkip(IF Len(f.br.buf) = 0 THEN Fill(f) ELSE f, nn, remain)

Discard(f, nn) ==
  IF nn < 0 THEN [ br |-> f.br, cr |-> f.cr, discarded |-> 0,
                   err |-> "ErrNegativeCount" ]
  ELSE IF nn = 0 THEN [ br |-> f.br, cr |-> f.cr, discarded |-> 0,
                        err |-> "nil" ]
  ELSE DiscardFrom(f, nn, nn)

----------------------------------------------------------------------------
(* Numbers, times and addresses                                            *)

MAX_BODY_SIZE == 8 * 1024 * 1024

idEpochBase == 1600000000

RECURSIVE StripZeros(_)
StripZeros(s) ==
  IF Len(s) > 1 /\ s[1] = "0" THEN StripZeros(Tail(s)) ELSE s

RECURSIVE DecValue(_,_)
DecValue(s, acc) ==
  IF Len(s) = 0 THEN acc ELSE DecValue(Tail(s), acc * 10 + DigitVal(s[1]))

\* a > b for decimal digit strings without leading zeros.
RECURSIVE DecGreater(_,_)
DecGreater(a, b) ==
  IF Len(a) # Len(b) THEN Len(a) > Len(b)
  ELSE IF Len(a) = 0 THEN FALSE
  ELSE IF a[1] # b[1] THEN DigitVal(a[1]) > DigitVal(b[1])
  ELSE DecGreater(Tail(a), Tail(b))

MaxUint64Dec ==
  << "1","8","4","4","6","7","4","4","0","7",
     "3","7","0","9","5","5","1","6","1","5" >>

MaxInt64Dec ==
  << "9","2","2","3","3","7","2","0","3","6",
     "8","5","4","7","7","5","8","0","7" >>

\* The number that stands for every value of ten digits or more.
Huge == 2 * 1073741823 + 1

\* strconv.ParseUint(s, 10, 64): err is "nil", "ErrSyntax" or "ErrRange". A
\* value of up to nine digits is the number itself; a larger one is Huge, and
\* wraps says that it is above the largest int64, so that int(value) < 0.
ParseUint(s) ==
  IF Len(s) = 0 \/ \E i \in 1..Len(s) : ~IsDigit(s[i])
    THEN [ err |-> "ErrSyntax", val |-> 0, wraps |-> FALSE ]
  ELSE LET d == StripZeros(s)
       IN  IF DecGreater(d, MaxUint64Dec)
             THEN [ err |-> "ErrRange", val |-> 0, wraps |-> FALSE ]
           ELSE IF Len(d) > 9
             THEN [ err |-> "nil", val |-> Huge,
                    wraps |-> DecGreater(d, MaxInt64Dec) ]
           ELSE [ err |-> "nil", val |-> DecValue(d, 0), wraps |-> FALSE ]

IsLeap(y) == (y % 4 = 0 /\ y % 100 # 0) \/ y % 400 = 0

DaysIn(y, mo) ==
  IF mo = 2 THEN (IF IsLeap(y) THEN 29 ELSE 28)
  ELSE IF mo \in {4, 6, 9, 11} THEN 30 ELSE 31

\* Days from 1970-01-01 to the civil date y-mo-d.
DaysFromCivil(y, mo, d) ==
  LET yy == IF mo <= 2 THEN y - 1 ELSE y
      era == yy \div 400
      yoe == yy - era * 400
      mp == IF mo > 2 THEN mo - 3 ELSE mo + 9
      doy == (153 * mp + 2) \div 5 + d - 1
      doe == yoe * 365 + yoe \div 4 - yoe \div 100 + doy
  IN  era * 146097 + doe - 719468

Num2(s, i) == DigitVal(s[i]) * 10 + DigitVal(s[i + 1])

\* time.Parse with the layout "2006-01-02 15:04:05" (zone = FALSE) or
\* "2006-01-02 15:04:05 -0700" (zone = TRUE), for values whose fields all
\* have the layout's width and whose year is 1970..2037: the Unix time, or an
\* error. (time.Parse also takes a one-digit hour and a fraction of a second;
\* no input of the model has either.)
ParseTime(s, zone) ==
  LET shape ==
        /\ Len(s) = (IF zone THEN 25 ELSE 19)
        /\ \A i \in {1,2,3,4,6,7,9,10,12,13,15,16,18,19} : IsDigit(s[i])
        /\ s[5] = "-" /\ s[8] = "-" /\ s[11] = " "
        /\ s[14] = ":" /\ s[17] = ":"
        /\ zone => /\ s[20] = " "
                   /\ s[21] \in { "+", "-" }
                   /\ \A i \in 22..25 : IsDigit(s[i])
  IN  IF ~shape THEN [ err |-> "parse", unix |-> 0 ]
      ELSE LET y  == Num2(s, 1) * 100 + Num2(s, 3)
               mo == Num2(s, 6)
               d  == Num2(s, 9)
               h  == Num2(s, 12)
               mi == Num2(s, 15)
               se == Num2(s, 18)
               zh == IF zone THEN Num2(s, 22) ELSE 0
               zm == IF zone THEN Num2(s, 24) ELSE 0
               off == (IF zone /\ s[21] = "-" THEN -1 ELSE 1)
                        * (zh * 3600 + zm * 60)
           IN  IF \/ y < 1970 \/ y > 2037
                  \/ mo < 1 \/ mo > 12 \/ d < 1 \/ d > DaysIn(y, mo)
                  \/ h > 23 \/ mi > 59 \/ se > 59 \/ zh > 24 \/ zm > 59
                 THEN [ err |-> "range", unix |-> 0 ]
                 ELSE [ err |-> "nil",
                        unix |-> DaysFromCivil(y, mo, d) * 86400
                                   + h * 3600 + mi * 60 + se - off ]

\* normalizeAndValidateAddress: NFC, lower case, and an '@' somewhere.
normalizeAndValidateAddress(address) ==
  LET a == ToLower(address)
  IN  IF IndexByte(a, "@") = -1
        THEN [ address |-> << >>, err |-> "invalid address" ]
        ELSE [ address |-> a, err |-> "nil" ]

\* Author.Parse(line) on the author a: the author afterwards and the error.
AuthorParse(a, line0) ==
  LET line == TrimSpace(line0)
      p == IndexByte(line, " ")
      named == IF p # -1 THEN [ a EXCEPT !.name = TrimSpace(SliceFrom(line, p)) ]
               ELSE a
      addr == IF p # -1 THEN SliceTo(line, p) ELSE line
      v == normalizeAndValidateAddress(addr)
  IN  IF Len(line) = 0 THEN [ author |-> a, err |-> "missing address" ]
      ELSE [ author |-> [ named EXCEPT !.address = v.address ], err |-> v.err ]

\* The four bytes UpdateIdFromTime writes for the Unix time ut >= idEpochBase.
SecBytes(ut) ==
  LET sec == ut - idEpochBase
  IN  << (sec \div 16777216) % 256, (sec \div 65536) % 256,
         (sec \div 256) % 256, sec % 256 >>

\* ilog2(n).
ilog2(v) ==
  IF v <= 1 THEN 1
  ELSE CHOOSE k \in 0..12 : 2^k <= v /\ v < 2^(k + 1)

\* The buffer size ParseReader asks for, and the one bufio gives it.
BufSize(size) ==
  LET want == 2^ilog2(IF size + 1 > 4096 THEN 4096 ELSE size + 1)
  IN  IF want < minReadBufferSize THEN minReadBufferSize ELSE want

----------------------------------------------------------------------------
(* The input streams                                                       *)

kwSubject == << "s","u","b","j","e","c","t" >>

kwFrom == << "f","r","o","m" >>

kwTo == << "t","o" >>

kwTime == << "t","i","m","e" >>

kwBody == << "b","o","d","y" >>

kwFile == << "f","i","l","e" >>

SP == << " " >>

NL == << "\n" >>

\* "2020-09-13 12:26:45", five seconds after the id epoch.
DateA == << "2","0","2","0","-","0","9","-","1","3"," ",
            "1","2",":","2","6",":","4","5" >>

\* "2020-09-13 05:26:50 -0700", ten seconds after the id epoch.
DateB == << "2","0","2","0","-","0","9","-","1","3"," ",
            "0","5",":","2","6",":","5","0"," ","-","0","7","0","0" >>

\* The sections a stream is put together from: header lines, some with their
\* payload, some with a payload that is too short, holds a newline or looks
\* like a header, a file of 2^63 bytes, and lines the parser rejects or skips.
Sections ==
  << kwSubject \o SP \o << "H","i" >> \o NL,                        \* 1
     kwFrom \o SP \o << "A","@","b"," ","A","l" >> \o NL,            \* 2
     kwFrom \o SP \o NL,                                             \* 3
     kwTo \o SP \o << "a","@","b","@","c" >> \o NL,                  \* 4
     kwTo \o SP \o << "a","b" >> \o NL,                              \* 5
     kwBody \o SP \o << "2" >> \o NL \o << "a","b" >>,               \* 6
     kwBody \o SP \o << "7" >> \o NL \o kwFile \o SP \o << "1" >> \o NL, \* 7
     kwBody \o SP \o << "3" >> \o NL \o << "a","b" >>,               \* 8
     kwFile \o SP \o << "1"," ","n" >> \o NL \o << "X" >>,           \* 9
     kwFile \o SP \o << "0" >> \o NL,                                \* 10
     kwFile \o SP \o << "2"," ","n" >> \o NL \o << "X" >>,           \* 11
     kwBody \o SP \o << "8","3","8","8","6","0","8" >> \o NL,        \* 12
     kwBody \o SP \o << "8","3","8","8","6","0","9" >> \o NL,        \* 13
     kwTime \o SP \o DateA \o NL,                                    \* 14
     kwTime \o SP \o DateB \o NL,                                    \* 15
     NL,                                                             \* 16
     SP \o << "x" >> \o NL,                                          \* 17
     << "x","-","a"," ","1" >> \o NL,                                \* 18
     << "c","o","l","o","r"," ","r","e","d" >> \o NL,                \* 19
     kwBody \o SP \o << "1","6" >> \o NL \o SubSeq(DateA, 1, 16),      \* 20
     kwFile \o SP \o << "9","2","2","3","3","7","2","0","3","6","8","5",
                        "4","7","7","5","8","0","8"," ","n" >> \o NL,    \* 21
     kwSubject \o << "\t","H","i" >> \o NL,                          \* 22
     kwTime \o SP \o << "x" >> \o NL,                                 \* 23
     kwFile \o SP \o << "a","b","c" >> \o NL,                         \* 24
     kwFile \o SP \o << "-","1" >> \o NL,                             \* 25
     kwFile \o SP \o << "x"," ","n","a","m","e" >> \o NL,             \* 26
     kwBody \o SP \o << "x" >> \o NL,                                \* 27
     kwFrom \o SP \o << "c","@","d" >> \o NL,                        \* 28
     kwSubject \o SP \o << " ","Y","o"," " >> \o NL,                 \* 29
     kwTo \o SP \o << "e","@","f"," ","B","o" >> \o NL,              \* 30
     kwTo \o SP \o << "c","@","d" >> \o NL >>                        \* 31

\* The number of sections in a stream.
MaxSections == 2

\* The sections of the streams that are parsed once.
ParseSections == 1..21

SectionLists ==
  UNION { [ 1..k -> ParseSections ] : k \in 0..MaxSections }

\* The sections of the streams that try the handling of single lines: one of
\* every kind of line and of every kind of error, a key followed by a tab,
\* and sizes that are no numbers.
LineSections == { 1, 3, 5, 7, 8, 11, 13, 14, 16, 17, 18, 19, 21,
                  22, 23, 24, 25, 26, 27 }

LineLists ==
  UNION { [ 1..k -> LineSections ] : k \in 0..MaxSections }

\* The sections of the streams that are parsed twice: one of every kind of
\* line, and a body that may be cut short.
TwiceSections == { 1, 2, 4, 6, 8, 9, 14, 15, 16, 17, 18, 19 }

TwiceLists ==
  UNION { [ 1..k -> TwiceSections ] : k \in 0..MaxSections }

\* The sections of the streams that repeat a header, and are parsed again
\* with another size hint or into the Message of the first parse: headers
\* with and without a name, and one of every other kind of line.
AgainSections == { 1, 2, 6, 9, 14, 16, 17, 18, 19, 28, 29, 30, 31 }

AgainLists ==
  UNION { [ 1..k -> AgainSections ] : k \in 0..MaxSections }

RECURSIVE Concat(_)
Concat(ss) == IF Len(ss) = 0 THEN << >> ELSE Sections[ss[1]] \o Concat(Tail(ss))

\* The same sections with every `time` header replaced by the other one.
Retime(ss) ==
  [ i \in 1..Len(ss) |-> IF ss[i] = 14 THEN 15 ELSE IF ss[i] = 15 THEN 14
                         ELSE ss[i] ]

\* The sources: one byte per read or the whole request, io.EOF after or
\* together with the last bytes.
Sources ==
  [ chunk : { 1, 4096 }, eofWith : BOOLEAN, failAt : { -1 }, sticky : { TRUE } ]

\* The sections of the streams that are read from a failing source.
IOSections == { 1, 2, 4, 6, 9, 14, 16, 17, 18, 19 }

IOLists ==
  UNION { [ 1..k -> IOSections ] : k \in 0..MaxSections }

\* The sources that fail 0, 1 or 3 bytes in front of the end of the stream.
FailingSources ==
  [ chunk : { 4096 }, eofWith : BOOLEAN,
    failAt : { Len(stream) - b : b \in { 0, 1, 3 } } \ { -1, -2, -3 },
    sticky : BOOLEAN ]

\* The sources that report io.EOF by an empty read.
PlainSources == { s \in Sources : ~s.eofWith }

\* The time a Message has before the parse (ParseFile sets it from the file
\* name): 300 seconds after the id epoch; a second parse may start from one
\* second before the epoch or 70000 seconds after it.
PresetTimes == { idEpochBase + 300 }

OtherTimes == { idEpochBase - 1, idEpochBase + 300, idEpochBase + 70000 }

----------------------------------------------------------------------------
(* Message.ParseReader                                                     *)

ZeroDigest == [ sum |-> FALSE, of |-> << >> ]

\* The digest with the message's time written to the hash first.
SumWithTime(h) == [ sum |-> TRUE, of |-> << m.time >> \o h ]

\* cr.hash.Sum: the digest of the bytes written to the hash.
Sum(h) == [ sum |-> TRUE, of |-> h ]

NoAuthor == [ address |-> << >>, name |-> << >> ]

NewMessage(t) ==
  [ id |-> [ sec |-> << 0, 0, 0, 0 >>, digest |-> ZeroDigest ],
    time |-> t, subject |-> << >>, from |-> NoAuthor, to |-> NoAuthor,
    body |-> << >>, files |-> << >> ]

NewCr == [ off |-> 0, nread |-> 0, hash |-> << >>, failed |-> FALSE ]

NewBr(size) == [ buf |-> << >>, err |-> "nil", size |-> BufSize(size) ]

NoLine == [ have |-> FALSE, line |-> << >>, isPrefix |-> FALSE, err |-> "nil" ]

Running == [ kind |-> "running", line |-> 0 ]

\* errorf("%s:%d: ...", srcname, lineno, ...): an error that names the line.
ErrAt(kind, line) == [ kind |-> kind, line |-> line ]

\* An error returned as it is, without source name and line.
ErrRaw(kind) == [ kind |-> kind, line |-> 0 ]

fieldtab(key) ==
  IF key = kwSubject THEN "FIELD_SUBJECT"
  ELSE IF key = kwFrom THEN "FIELD_FROM"
  ELSE IF key = kwTo THEN "FIELD_TO"
  ELSE IF key = kwTime THEN "FIELD_TIME"
  ELSE IF key = kwBody THEN "FIELD_BODY"
  ELSE IF key = kwFile THEN "FIELD_FILE"
  ELSE "none"

\* The offset in the stream of the next byte the buffered reader hands out.
TrueOffset(b, c) == c.off - Len(b.buf)

\* p of the line dispatch for the line l.line that br.ReadLine returned: the
\* index of the first space, or len(line).
P0(l) == IndexByte(l.line, " ")

\* p when the line is never cut at its first space.
PWholeLine(l) == Len(l.line)

P(l) == IF P0(l) = -1 THEN Len(l.line) ELSE P0(l)

Key(l) == SliceTo(l.line, P(l))

Value(l) == SliceFrom(l.line, P(l))

\* The line l has been read and its key is the field f of fieldtab.
AtField(l, f) ==
  /\ l.err = "nil" /\ ~l.isPrefix
  /\ P0(l) # 0
  /\ Len(l.line) # 0
  /\ fieldtab(Key(l)) = f

\* A fresh Message with its time set, and ParseReader called on a stream made
\* of the sections of one of the lists, with the stream's length (as ParseFile
\* does) or 4095 as the size hint, up to the first ReadLine.
ParseInitFrom(lists, sources) ==
  /\ secs \in lists
  /\ stream = Concat(secs)
  /\ src \in sources
  /\ srcsize \in { Len(stream), 4095 }
  /\ pretime \in PresetTimes
  /\ m = NewMessage(pretime)
  /\ cr = NewCr
  /\ br = NewBr(srcsize)
  /\ cur = NoLine
  /\ lineno = 0
  /\ fileno = 0
  /\ res = Running
  /\ marks = << >>
  /\ run = 1
  /\ variant = "none"
  /\ prev = [ res |-> Running ]

ParseInitOver(lists) == ParseInitFrom(lists, Sources)

\* What every step of the loop leaves alone.
Inputs == <<secs, stream, src, srcsize, pretime, run, variant, prev,
           eid, bp, dst, n, out, epc, stamp, sd, db, ms>>

\* The loop goes on with the next line.
Continue == /\ res' = res
            /\ lineno' = lineno
            /\ cur' = NoLine

\* ParseReader returns the error e.
Return(e) == /\ res' = e
             /\ lineno' = lineno
             /\ cur' = NoLine

\* The line l that br.ReadLine returned becomes the current line.
TakeLine(l) ==
  /\ cur' = [ have |-> TRUE, line |-> l.line, isPrefix |-> l.isPrefix,
              err |-> l.err ]
  /\ br' = l.br
  /\ cr' = l.cr

\* The top of the loop: lineno++ and br.ReadLine().
NextLine ==
  /\ res.kind = "running"
  /\ ~cur.have
  /\ TakeLine(ReadLine([ br |-> br, cr |-> cr ]))
  /\ lineno' = lineno + 1
  /\ UNCHANGED <<m, fileno, res, marks>>
  /\ UNCHANGED Inputs

\* ReadLine reports io.EOF: the loop ends, the first 20 bytes of the digest
\* go to m.id[4:], and UpdateIdFromTime writes the seconds to m.id[:4] or
\* fails for a time before the id epoch.
ParseEOF ==
  /\ res.kind = "running"
  /\ cur.have
  /\ cur.err = "EOF"
  /\ LET hashed == [ m EXCEPT !.id.digest = Sum(cr.hash) ]
     IN  IF m.time < idEpochBase
           THEN /\ m' = hashed
                /\ res' = ErrRaw("TimestampInPast")
           ELSE /\ m' = [ hashed EXCEPT !.id.sec = SecBytes(m.time) ]
                /\ res' = [ kind |-> "ok", line |-> 0 ]
  /\ lineno' = lineno /\ cur' = NoLine
  /\ UNCHANGED <<br, cr, fileno, marks>>
  /\ UNCHANGED Inputs

\* ReadLine reports another error than io.EOF: return err.
ReadError ==
  /\ res.kind = "running"
  /\ cur.have
  /\ cur.err \notin { "nil", "EOF" }
  /\ Return(ErrRaw(cur.err))
  /\ UNCHANGED <<m, br, cr, fileno, marks>>
  /\ UNCHANGED Inputs

\* The line does not fit the buffer.
FieldTooLong ==
  /\ res.kind = "running"
  /\ cur.have
  /\ cur.err = "nil" /\ cur.isPrefix
  /\ Return(ErrAt("FieldTooLong", lineno))
  /\ UNCHANGED <<m, br, cr, fileno, marks>>
  /\ UNCHANGED Inputs

\* The line begins with a space.
LeadingSpace ==
  /\ res.kind = "running"
  /\ cur.have
  /\ cur.err = "nil" /\ ~cur.isPrefix
  /\ P0(cur) = 0
  /\ Return(ErrAt("InvalidLeadingSpace", lineno))
  /\ UNCHANGED <<m, br, cr, fileno, marks>>
  /\ UNCHANGED Inputs

\* An empty line is skipped.
SkipEmptyLine ==
  /\ res.kind = "running"
  /\ cur.have
  /\ cur.err = "nil" /\ ~cur.isPrefix
  /\ P0(cur) = -1 /\ Len(cur.line) = 0
  /\ Continue
  /\ UNCHANGED <<m, br, cr, fileno, marks>>
  /\ UNCHANGED Inputs

\* A key outside fieldtab that begins with "x-" is ignored.
IgnoreExtension ==
  /\ res.kind = "running"
  /\ cur.have
  /\ AtField(cur, "none")
  /\ HasPrefix(Key(cur), << "x", "-" >>)
  /\ Continue
  /\ UNCHANGED <<m, br, cr, fileno, marks>>
  /\ UNCHANGED Inputs

\* Any other key outside fieldtab is an error.
UnknownField ==
  /\ res.kind = "running"
  /\ cur.have
  /\ AtField(cur, "none")
  /\ ~HasPrefix(Key(cur), << "x", "-" >>)
  /\ Return(ErrAt("UnknownField", lineno))
  /\ UNCHANGED <<m, br, cr, fileno, marks>>
  /\ UNCHANGED Inputs

\* case FIELD_SUBJECT.
FieldSubject ==
  /\ res.kind = "running"
  /\ cur.have
  /\ AtField(cur, "FIELD_SUBJECT")
  /\ m' = [ m EXCEPT !.subject = TrimSpace(Value(cur)) ]
  /\ Continue
  /\ UNCHANGED <<br, cr, fileno, marks>>
  /\ UNCHANGED Inputs

\* case FIELD_FROM.
FieldFrom ==
  /\ res.kind = "running"
  /\ cur.have
  /\ AtField(cur, "FIELD_FROM")
  /\ LET a == AuthorParse(m.from, Value(cur))
     IN  /\ m' = [ m EXCEPT !.from = a.author ]
         /\ IF a.err # "nil"
              THEN Return([ kind |-> "InvalidAddress", line |-> lineno,
                            msg |-> a.err ])
              ELSE Continue
  /\ UNCHANGED <<br, cr, fileno, marks>>
  /\ UNCHANGED Inputs

\* case FIELD_TO.
FieldTo ==
  /\ res.kind = "running"
  /\ cur.have
  /\ AtField(cur, "FIELD_TO")
  /\ LET a == AuthorParse(m.to, Value(cur))
     IN  /\ m' = [ m EXCEPT !.to = a.author ]
         /\ IF a.err # "nil"
              THEN Return([ kind |-> "InvalidAddress", line |-> lineno,
                            msg |-> a.err ])
              ELSE Continue
  /\ UNCHANGED <<br, cr, fileno, marks>>
  /\ UNCHANGED Inputs

\* case FIELD_TIME: the layout with a zone first, then the one without.
FieldTime ==
  /\ res.kind = "running"
  /\ cur.have
  /\ AtField(cur, "FIELD_TIME")
  /\ LET s == TrimSpace(Value(cur))
         t1 == ParseTime(s, TRUE)
         t2 == ParseTime(s, FALSE)
     IN  IF t1.err = "nil"
           THEN m' = [ m EXCEPT !.time = t1.unix ] /\ Continue
         ELSE IF t2.err = "nil"
           THEN m' = [ m EXCEPT !.time = t2.unix ] /\ Continue
         ELSE m' = m /\ Return(ErrRaw("InvalidTimeFormat"))
  /\ UNCHANGED <<br, cr, fileno, marks>>
  /\ UNCHANGED Inputs

\* The size check of case FIELD_BODY with >= for >.
BodyTooLargeAtLimit(size) == size >= MAX_BODY_SIZE

\* The size check of case FIELD_BODY: size > MAX_BODY_SIZE.
BodyTooLarge(size) == size > MAX_BODY_SIZE

\* The end of case FIELD_BODY: r is what io.ReadFull(br, m.body) returned after
\* m.body = make([]byte, size).
StoreBody(size, r) ==
  /\ br' = r.br
  /\ cr' = r.cr
  /\ IF r.err # "nil"
       THEN /\ Return(ErrRaw(r.err))
            /\ m' = [ m EXCEPT !.body = << >> ]
            /\ marks' = marks
       ELSE /\ Continue
            /\ m' = [ m EXCEPT !.body = r.data ]
            /\ marks' = Append(marks,
                          [ kind |-> "body", start |-> TrueOffset(br, cr),
                            size |-> size, end |-> TrueOffset(r.br, r.cr),
                            data |-> r.data ])

\* case FIELD_BODY for the size ParseUint returned.
HandleBody(size) ==
  IF size.err # "nil"
    THEN /\ Return(ErrAt("InvalidSize", lineno))
         /\ UNCHANGED <<m, br, cr, marks>>
  ELSE IF BodyTooLarge(size.val)
    THEN /\ Return(ErrAt("BodyTooLarge", lineno))
         /\ UNCHANGED <<m, br, cr, marks>>
  ELSE StoreBody(size.val, ReadFull([ br |-> br, cr |-> cr ], size.val))

\* case FIELD_BODY.
FieldBody ==
  /\ res.kind = "running"
  /\ cur.have
  /\ AtField(cur, "FIELD_BODY")
  /\ HandleBody(ParseUint(TrimSpace(Value(cur))))
  /\ UNCHANGED fileno
  /\ UNCHANGED Inputs

\* The name of a `file` line: what follows the first space of the trimmed
\* value, trimmed.
FileName(line) ==
  IF IndexByte(line, " ") # -1
    THEN TrimSpace(SliceFrom(line, IndexByte(line, " "))) ELSE << >>

\* The size token of a `file` line: what precedes the first space.
FileSize(line) ==
  IF IndexByte(line, " ") # -1 THEN SliceTo(line, IndexByte(line, " ")) ELSE line

\* The end of case FIELD_FILE: d is what br.Discard(size) returned.
StoreFile(name, size, d) ==
  /\ br' = d.br
  /\ cr' = d.cr
  /\ IF d.discarded < size
       THEN /\ Return([ kind |-> "TruncatedAttachment", line |-> lineno,
                        fileno |-> fileno + 1, name |-> name ])
            /\ UNCHANGED <<m, marks>>
     ELSE IF d.err # "nil"
       THEN /\ Return(ErrRaw(d.err))
            /\ UNCHANGED <<m, marks>>
     ELSE /\ Continue
          /\ m' = [ m EXCEPT !.files =
                      Append(@, [ name |-> name,
                                  dataStart |-> cr.nread - Len(br.buf),
                                  dataLen |-> size ]) ]
          /\ marks' = Append(marks,
                        [ kind |-> "file", start |-> TrueOffset(br, cr),
                          size |-> size, end |-> TrueOffset(d.br, d.cr),
                          data |-> << >> ])

\* int(size64), an int of 64 bits: a value above the largest int64 is negative.
IntOf(size64) == IF size64.wraps THEN -1 ELSE size64.val

\* case FIELD_FILE for the trimmed value line and the size ParseUint returned.
\* The error for a bad size formats line[p:] with the p of the whole line on
\* the cut line: a slice out of range panics.
HandleFile(line, size64) ==
  IF size64.err # "nil"
    THEN /\ IF P(cur) > Len(FileSize(line))
              THEN Return(ErrRaw("panic"))
              ELSE Return(ErrAt("InvalidSize", lineno))
         /\ UNCHANGED <<m, br, cr, marks>>
    ELSE StoreFile(FileName(line), IntOf(size64),
                   Discard([ br |-> br, cr |-> cr ], IntOf(size64)))

\* case FIELD_FILE.
FieldFile ==
  /\ res.kind = "running"
  /\ cur.have
  /\ AtField(cur, "FIELD_FILE")
  /\ HandleFile(TrimSpace(Value(cur)), ParseUint(FileSize(TrimSpace(Value(cur)))))
  /\ fileno' = fileno + 1
  /\ UNCHANGED Inputs

\* A second parse of the first parse's input into a fresh Message: through
\* another source ("delivery"), with another time set beforehand ("pretime"),
\* or of the stream with the other `time` header ("retime").
ParseAgain ==
  /\ run = 1
  /\ res.kind # "running"
  /\ \E v \in { "delivery", "pretime", "retime" } :
       /\ variant' = v
       /\ src' \in (IF v = "delivery"
                      THEN { [ src EXCEPT !.eofWith = ~@ ],
                             [ src EXCEPT !.chunk = IF @ = 1 THEN 4096 ELSE 1 ] }
                      ELSE { src })
       /\ pretime' \in (IF v = "pretime" THEN OtherTimes \ { pretime }
                        ELSE { pretime })
       /\ stream' = (IF v = "retime" THEN Concat(Retime(secs)) ELSE stream)
       /\ v = "retime" => Retime(secs) # secs
  /\ prev' = [ res |-> res, m |-> m, pretime |-> pretime, hash |-> cr.hash ]
  /\ run' = 2
  /\ m' = NewMessage(pretime')
  /\ cr' = NewCr
  /\ br' = NewBr(srcsize)
  /\ cur' = NoLine
  /\ lineno' = 0
  /\ fileno' = 0
  /\ res' = Running
  /\ marks' = << >>
  /\ UNCHANGED <<secs, srcsize>>
  /\ UNCHANGED idvars
  /\ UNCHANGED xvars

\* A second call of ParseReader on the same stream with another srcsize,
\* into a fresh Message.
ParseOtherHint ==
  /\ run = 1
  /\ res.kind # "running"
  /\ srcsize' \in { 0, Len(stream), 4095 } \ { srcsize }
  /\ variant' = "hint"
  /\ prev' = [ res |-> res, m |-> m, pretime |-> pretime, hash |-> cr.hash ]
  /\ run' = 2
  /\ m' = NewMessage(pretime)
  /\ cr' = NewCr
  /\ br' = NewBr(srcsize')
  /\ cur' = NoLine
  /\ lineno' = 0
  /\ fileno' = 0
  /\ res' = Running
  /\ marks' = << >>
  /\ UNCHANGED <<secs, stream, src, pretime>>
  /\ UNCHANGED idvars
  /\ UNCHANGED xvars

\* A second call of ParseReader on the same stream into the Message that
\* holds the result of the first call, its time set again beforehand.
ParseReuse ==
  /\ run = 1
  /\ res.kind = "ok"
  /\ variant' = "reuse"
  /\ prev' = [ res |-> res, m |-> m, pretime |-> pretime, hash |-> cr.hash ]
  /\ run' = 2
  /\ m' = [ m EXCEPT !.time = pretime ]
  /\ cr' = NewCr
  /\ br' = NewBr(srcsize)
  /\ cur' = NoLine
  /\ lineno' = 0
  /\ fileno' = 0
  /\ res' = Running
  /\ marks' = << >>
  /\ UNCHANGED <<secs, stream, src, srcsize, pretime>>
  /\ UNCHANGED idvars
  /\ UNCHANGED xvars

ParseNext ==
  \/ NextLine
  \/ ParseEOF
  \/ FieldTooLong
  \/ LeadingSpace
  \/ SkipEmptyLine
  \/ IgnoreExtension
  \/ UnknownField
  \/ FieldSubject
  \/ FieldFrom
  \/ FieldTo
  \/ FieldTime
  \/ FieldBody
  \/ FieldFile

TwiceNext == ParseNext \/ ParseAgain

IONext == ParseNext \/ ReadError

AgainNext == ParseNext \/ ParseOtherHint \/ ParseReuse

----------------------------------------------------------------------------
(* Message.EncodeId as a state machine                                     *)

IdInit ==
  /\ eid \in { w1 \o w2 \o w3 \o w4 \o w5 \o w6 :
                 w1 \in IdWords, w2 \in IdWords, w3 \in IdWords,
                 w4 \in IdWords, w5 \in IdWords, w6 \in IdWords }
  /\ bp = Parts(eid)
  /\ dst = [ i \in 1..DstLen |-> NUL ]
  /\ n = DstLen
  /\ out = << >>
  /\ epc = "loop"

\* One iteration of `for len(bp) != 0`: divide bp by 62, write the remainder's
\* character at dst[n-1], continue with the quotient.
EncodeDigit ==
  /\ epc = "loop"
  /\ Len(bp) # 0
  /\ LET r == Divide(bp, 1, << >>, 0)
     IN  /\ n' = n - 1
         /\ dst' = [ dst EXCEPT ![n] = base62Characters[r.remainder + 1] ]
         /\ bp' = r.quotient
  /\ UNCHANGED <<eid, out, epc>>
  /\ UNCHANGED pvars
  /\ UNCHANGED xvars

\* After the loop: n--, dst[n] = '0', return dst[n-1:].
\* (dst is 1-based here: the code's dst[k] is dst[k+1].)
EncodeReturn ==
  /\ epc = "loop"
  /\ Len(bp) = 0
  /\ n' = n - 1
  /\ dst' = [ dst EXCEPT ![n] = "0" ]
  /\ out' = SubSeq(dst', n - 1, DstLen)
  /\ epc' = "done"
  /\ UNCHANGED <<eid, bp>>
  /\ UNCHANGED pvars
  /\ UNCHANGED xvars

IdNext == EncodeDigit \/ EncodeReturn


----------------------------------------------------------------------------
(* Message.UpdateIdFromTime, IdTimestamp and IdTime                        *)

\* A time here is its distance in seconds to idEpochBase, written
\* [top, hi, lo] for top * 2^32 + hi * 2^16 + lo with hi and lo in 0..65535:
\* ut < idEpochBase is top < 0, and uint32(ut - idEpochBase) is <<hi, lo>>.
StampHalves == { 0, 1, 255, 256, 65535 }

StampTimes == [ top : { -1, 0, 1 }, hi : StampHalves, lo : StampHalves ]

\* The ids a Message may have before the call: bytes 0..3 and the digest.
StampIds ==
  [ sec : { << 0, 0, 0, 0 >>, << 9, 9, 9, 9 >> },
    digest : { ZeroDigest, Sum(<< "a" >>) } ]

\* UpdateIdFromTime for m.id = id and m.time = t: [id, err].
UpdateIdFromTime(id, t) ==
  IF t.top < 0
    THEN [ id |-> id, err |-> "TimestampInPast" ]
    ELSE [ id |-> [ id EXCEPT !.sec = << t.hi \div 256, t.hi % 256,
                                         t.lo \div 256, t.lo % 256 >> ],
           err |-> "nil" ]

\* IdTimestamp: the uint32 of bytes 0..3, as <<hi, lo>>.
IdTimestamp(id) ==
  << id.sec[1] * 256 + id.sec[2], id.sec[3] * 256 + id.sec[4] >>

\* IdTime: time.Unix(int64(IdTimestamp()) + idEpochBase, 0).
IdTime(id) ==
  [ top |-> 0, hi |-> IdTimestamp(id)[1], lo |-> IdTimestamp(id)[2] ]

StampInit ==
  /\ stamp \in [ pc : { "ready" }, time : StampTimes, id : StampIds,
                  before : StampIds, err : { "nil" } ]
  /\ stamp.before = stamp.id

\* The call of UpdateIdFromTime.
StampId ==
  /\ stamp.pc = "ready"
  /\ stamp' = [ stamp EXCEPT
                  !.pc = "done",
                  !.id = UpdateIdFromTime(stamp.id, stamp.time).id,
                  !.err = UpdateIdFromTime(stamp.id, stamp.time).err ]
  /\ UNCHANGED <<idvars, pvars, sd, db, ms>>

StampNext == StampId

\* ---------------------------------------------------------------------------
\* The shutdown goroutine of init, Shutdown and the exit handlers
\* ---------------------------------------------------------------------------

\* At most this many exit handlers are registered.
MaxHandlers == 2

\* What a registered handler does when it is invoked: return nil, return an
\* error, panic, or wait for ctx.Done() and return ctx.Err().
Behaviours == { "nil", "error", "panic", "wait" }

HandlerLists == UNION { [ 1..k -> Behaviours ] : k \in 0..MaxHandlers }

\* The codes Shutdown is called with.
ExitCodes == { 0, 3 }

\* cancel(): a context that is done keeps its error.
Cancel(ctx) == IF ctx = "live" THEN "canceled" ELSE ctx

\* The exit code left as it was requested.
ExitCodeKept(c) == c

\* The exit code behind case <-ctx.Done().
ExitCodeOnDone(c) == IF c = 0 THEN 1 ELSE c

\* The handlers are registered; the goroutine waits at sig := <-sigch.
ShutdownInit ==
  /\ sd \in [ pc : { "waiting" }, exitExitCode : { 0 }, handlers : HandlerLists,
              st : { << >> }, timely : { << >> }, ctx : { "none" },
              left : { 0 }, exitCode : { 0 }, code : { -1 } ]

\* The goroutine behind sig := <-sigch: the context, the copy of the
\* handlers, exitCode := exitExitCode and one goroutine for each handler.
Started(s) ==
  [ s EXCEPT !.pc = "loop", !.ctx = "live",
             !.st = [ i \in 1..Len(s.handlers) |-> "invoked" ],
             !.timely = [ i \in 1..Len(s.handlers) |-> FALSE ],
             !.left = Len(s.handlers),
             !.exitCode = s.exitExitCode ]

\* One of the exit signals arrives: sig := <-sigch, signal.Reset and the start
\* of the handlers.
Signal ==
  /\ sd.pc = "waiting"
  /\ sd' = Started(sd)
  /\ UNCHANGED <<idvars, pvars, stamp, db, ms>>

\* Shutdown(exitCode): exitExitCode = exitCode; close(sigch). The goroutine
\* has its nil signal from the closed channel; signal.Notify still names
\* sigch.
Shutdown ==
  /\ sd.pc = "waiting"
  /\ \E code \in ExitCodes :
       sd' = [ sd EXCEPT !.exitExitCode = code, !.pc = "closed" ]
  /\ UNCHANGED <<idvars, pvars, stamp, db, ms>>

\* The goroutine behind Shutdown: signal.Reset and the start of the handlers.
ResetSignals ==
  /\ sd.pc = "closed"
  /\ sd' = Started(sd)
  /\ UNCHANGED <<idvars, pvars, stamp, db, ms>>

\* One of the exit signals arrives between close(sigch) and signal.Reset:
\* os/signal sends it on the closed channel and the process panics.
SignalOnClosed ==
  /\ sd.pc = "closed"
  /\ sd' = [ sd EXCEPT !.pc = "crashed" ]
  /\ UNCHANGED <<idvars, pvars, stamp, db, ms>>

\* The deadline of the shutdown context passes.
Timeout ==
  /\ sd.pc = "loop"
  /\ sd.ctx = "live"
  /\ sd' = [ sd EXCEPT !.ctx = "deadline" ]
  /\ UNCHANGED <<idvars, pvars, stamp, db, ms>>

\* fn(ctx) returns nil: the goroutine goes to send on fnch.
HandlerNil ==
  /\ sd.pc = "loop"
  /\ \E i \in 1..Len(sd.handlers) :
       /\ sd.st[i] = "invoked"
       /\ sd.handlers[i] = "nil"
       /\ sd' = [ sd EXCEPT !.st[i] = "sending",
                            !.timely[i] = (sd.ctx # "deadline") ]
  /\ UNCHANGED <<idvars, pvars, stamp, db, ms>>

\* fn(ctx) returns an error, at once or ctx.Err() when the context is done:
\* cancel().
HandlerError ==
  /\ sd.pc = "loop"
  /\ \E i \in 1..Len(sd.handlers) :
       /\ sd.st[i] = "invoked"
       /\ \/ sd.handlers[i] = "error"
          \/ sd.handlers[i] = "wait" /\ sd.ctx # "live"
       /\ sd' = [ sd EXCEPT !.st[i] = "failed", !.ctx = Cancel(sd.ctx) ]
  /\ UNCHANGED <<idvars, pvars, stamp, db, ms>>

\* fn(ctx) panics: the deferred function recovers, logs and calls cancel().
HandlerPanic ==
  /\ sd.pc = "loop"
  /\ \E i \in 1..Len(sd.handlers) :
       /\ sd.st[i] = "invoked"
       /\ sd.handlers[i] = "panic"
       /\ sd' = [ sd EXCEPT !.st[i] = "recovered", !.ctx = Cancel(sd.ctx) ]
  /\ UNCHANGED <<idvars, pvars, stamp, db, ms>>

\* The wait loop takes case <-fnch from a handler that is sending.
WaitHandler ==
  /\ sd.pc = "loop"
  /\ sd.left > 0
  /\ \E i \in 1..Len(sd.handlers) :
       /\ sd.st[i] = "sending"
       /\ sd' = [ sd EXCEPT !.st[i] = "done", !.left = sd.left - 1 ]
  /\ UNCHANGED <<idvars, pvars, stamp, db, ms>>

\* The wait loop takes case <-ctx.Done() and breaks.
WaitDone ==
  /\ sd.pc = "loop"
  /\ sd.left > 0
  /\ sd.ctx # "live"
  /\ sd' = [ sd EXCEPT !.exitCode = ExitCodeOnDone(sd.exitCode), !.left = 0 ]
  /\ UNCHANGED <<idvars, pvars, stamp, db, ms>>

\* os.Exit(exitCode).
Exit ==
  /\ sd.pc = "loop"
  /\ sd.left = 0
  /\ sd' = [ sd EXCEPT !.pc = "exited", !.code = sd.exitCode ]
  /\ UNCHANGED <<idvars, pvars, stamp, db, ms>>

ShutdownNext ==
  \/ Signal \/ Shutdown \/ ResetSignals \/ SignalOnClosed \/ Timeout
  \/ HandlerNil \/ HandlerError \/ HandlerPanic
  \/ WaitHandler \/ WaitDone \/ Exit

\* ---------------------------------------------------------------------------
\* The index: DB.init and DB.PutMessage
\* ---------------------------------------------------------------------------

\* The messages that are put: the id, the address and the name of from.
IndexIds == { "id1", "id2" }

IndexAddresses == { "a@b", "c@d" }

IndexNames == { "", "Al", "Bo" }

IndexMessages == [ id : IndexIds, address : IndexAddresses, name : IndexNames ]

\* The statement of PutMessage that returns an error, if one does.
Failures == { "none", "begin", "messages", "authors", "commit" }

\* No PutMessage has been counted for an address.
Never == "never"

\* INSERT OR IGNORE into messages: id is the primary key.
InsertOrIgnoreMessage(rows, r) ==
  IF \E o \in rows : o.id = r.id THEN rows ELSE rows \cup { r }

\* INSERT OR IGNORE into authors: address is the primary key.
InsertOrIgnoreAuthor(rows, r) ==
  IF \E o \in rows : o.address = r.address THEN rows ELSE rows \cup { r }

\* INSERT into authors that keeps the row it meets.
InsertBesideAuthor(rows, r) == rows \cup { r }

\* INSERT OR REPLACE into authors: the row of the address is replaced.
InsertOrReplaceAuthor(rows, r) ==
  { o \in rows : o.address # r.address } \cup { r }

\* The statement on authors that PutMessage chooses by msg.from.name.
PutAuthor(rows, msg) ==
  IF msg.name # ""
    THEN InsertOrReplaceAuthor(rows, [ address |-> msg.address, name |-> msg.name ])
    ELSE InsertOrIgnoreAuthor(rows, [ address |-> msg.address, name |-> "" ])

\* The tables behind PutMessage(msg) when statement fail returns an error.
\* The statements run through db.Exec, outside the transaction, and stay
\* when a later statement or the commit fails.
PutTables(d, msg, fail) ==
  [ d EXCEPT
      !.messages =
         IF fail \in { "begin", "messages" } THEN d.messages
         ELSE InsertOrIgnoreMessage(d.messages,
                [ id |-> msg.id, fromaddr |-> msg.address ]),
      !.authors =
         IF fail \in { "begin", "messages", "authors" } THEN d.authors
         ELSE PutAuthor(d.authors, msg) ]

\* The calls so far: for every address the from.name of the latest
\* PutMessage that returned nil (recent), and the latest name that is not
\* empty of a PutMessage whose statement on authors ran, or the empty name
\* when such statements ran with the empty name only (named).
PutHistory(d, msg, fail) ==
  [ d EXCEPT
      !.recent[msg.address] = IF fail = "none" THEN msg.name ELSE @,
      !.named[msg.address] =
         IF fail \in { "begin", "messages", "authors" } THEN @
         ELSE IF msg.name # "" THEN msg.name
         ELSE IF @ = Never THEN "" ELSE @ ]

\* The transaction of db.Begin() when PutMessage returns: there is none when
\* Begin fails, the return behind the statement on messages leaves it open,
\* the one behind the statement on authors rolls it back, and tx.Commit ends
\* it.
TxAfter(fail) ==
  CASE fail = "begin" -> "none"
    [] fail = "messages" -> "open"
    [] fail = "authors" -> "rolled back"
    [] fail = "commit" -> "closed"
    [] OTHER -> "committed"

\* DB.init: the tables are there and empty.
IndexInit ==
  db = [ pc |-> "open", messages |-> { }, authors |-> { },
         recent |-> [ a \in IndexAddresses |-> Never ],
         named |-> [ a \in IndexAddresses |-> Never ],
         last |-> "nil", tx |-> "none", mu |-> "free" ]

\* DB.PutMessage(msg).
PutMessage ==
  /\ db.pc = "open"
  /\ \E msg \in IndexMessages, fail \in Failures :
       db' = [ PutHistory(PutTables(db, msg, fail), msg, fail) EXCEPT
                 !.last = IF fail = "none" THEN "nil" ELSE fail,
                 !.tx = TxAfter(fail) ]
  /\ UNCHANGED <<idvars, pvars, stamp, sd, ms>>

IndexNext == PutMessage

\* ---------------------------------------------------------------------------
\* main, MessageSyncer, MessageFileScanner, cmd_list and the db handle
\* ---------------------------------------------------------------------------

\* At most this many entries are in the inbox.
MaxFiles == 2

\* An entry of the inbox: a dot file, or a .msg file that ParseFile reads
\* well, rejects with an error, or panics on.
FileKinds == { "dot", "ok", "error", "panic" }

FileLists == UNION { [ 1..k -> FileKinds ] : k \in 0..MaxFiles }

\* DB.Close on the handle h: the handle afterwards and the error returned,
\* nil at once when the handle is nil, else what db.DB.Close() returns (nil
\* here).
Close(h) ==
  IF h = "nil" THEN [ handle |-> "nil", err |-> "nil" ]
  ELSE [ handle |-> "nil", err |-> "nil" ]

\* main has opened the database, registered db.Close, started the syncer
\* (initscanwg.Add(1), go ms.main()) and is about to run cmd_list.
SyncInit ==
  ms \in [ pc : { "cmd" }, nowait : BOOLEAN, files : FileLists,
           ld : { << >> }, next : { 1 }, wg : { 0 }, scan : { "scanning" },
           mu : { "free" }, handle : { "open" }, down : { "waiting" },
           proc : { "running" }, onNil : { FALSE }, early : { FALSE } ]

\* A loader has not returned yet.
Pending == \E i \in 1..Len(ms.ld) : ms.ld[i] \in { "started", "parsed", "putting" }

\* scanDirEntries on the next entry: a dot file is skipped, a .msg file gets
\* s.wg.Add(1) and go s.loadMessage(path).
scanDirEntries ==
  /\ ms.proc = "running"
  /\ ms.scan = "scanning"
  /\ ms.next <= Len(ms.files)
  /\ ms' = [ ms EXCEPT
               !.next = @ + 1,
               !.ld = Append(@, IF ms.files[ms.next] = "dot"
                                  THEN "skipped" ELSE "started"),
               !.wg = IF ms.files[ms.next] = "dot" THEN @ ELSE @ + 1 ]
  /\ UNCHANGED <<idvars, pvars, stamp, sd, db>>

\* scanInbox behind scanDir: s.wg.Wait() returns, and ms.main calls
\* initscanwg.Done().
scanInbox ==
  /\ ms.proc = "running"
  /\ ms.scan = "scanning"
  /\ ms.next > Len(ms.files)
  /\ ms.wg = 0
  /\ ms' = [ ms EXCEPT !.scan = "done" ]
  /\ UNCHANGED <<idvars, pvars, stamp, sd, db>>

\* loadMessage up to db.PutMessage: msg.ParseFile(file). An error is logged
\* and the loader returns through wg.Done(); a panic of the parser is
\* recovered nowhere and ends the process.
loadMessage ==
  /\ ms.proc = "running"
  /\ \E i \in 1..Len(ms.ld) :
       /\ ms.ld[i] = "started"
       /\ ms' = CASE ms.files[i] = "ok" -> [ ms EXCEPT !.ld[i] = "parsed" ]
                  [] ms.files[i] = "error" ->
                       [ ms EXCEPT !.ld[i] = "failed", !.wg = @ - 1 ]
                  [] OTHER -> [ ms EXCEPT !.proc = "crashed" ]
  /\ UNCHANGED <<idvars, pvars, stamp, sd, db>>

\* db.PutMessage of a loader: db.mu.Lock() and db.Begin(), which is a call on
\* a nil *sql.DB when the handle is closed.
PutBegin ==
  /\ ms.proc = "running"
  /\ ms.mu = "free"
  /\ \E i \in 1..Len(ms.ld) :
       /\ ms.ld[i] = "parsed"
       /\ ms' = IF ms.handle = "nil"
                  THEN [ ms EXCEPT !.proc = "crashed", !.onNil = TRUE ]
                  ELSE [ ms EXCEPT !.ld[i] = "putting", !.mu = "loader" ]
  /\ UNCHANGED <<idvars, pvars, stamp, sd, db>>

\* db.PutMessage returns, with or without an error: the deferred Unlock,
\* and the loader returns through wg.Done().
PutReturn ==
  /\ ms.proc = "running"
  /\ \E i \in 1..Len(ms.ld) :
       /\ ms.ld[i] = "putting"
       /\ \E r \in { "stored", "failed" } :
            ms' = [ ms EXCEPT !.ld[i] = r, !.mu = "free", !.wg = @ - 1 ]
  /\ UNCHANGED <<idvars, pvars, stamp, sd, db>>

\* cmd_list up to printMessageList: msgsync.WaitReady() unless -nowait.
WaitReady ==
  /\ ms.proc = "running"
  /\ ms.pc = "cmd"
  /\ ms.nowait \/ ms.scan = "done"
  /\ ms' = [ ms EXCEPT !.pc = "query" ]
  /\ UNCHANGED <<idvars, pvars, stamp, sd, db>>

\* printMessageList: db.mu.RLock() and db.Query, a call on a nil *sql.DB when
\* the handle is closed.
printMessageList ==
  /\ ms.proc = "running"
  /\ ms.pc = "query"
  /\ ms.mu = "free"
  /\ ms' = IF ms.handle = "nil"
             THEN [ ms EXCEPT !.proc = "crashed", !.onNil = TRUE ]
             ELSE [ ms EXCEPT !.pc = "listed", !.early = Pending ]
  /\ UNCHANGED <<idvars, pvars, stamp, sd, db>>

\* main behind the command: Shutdown(0), which starts the exit handlers
\* unless a signal has, and <-ExitCh.
MainShutdown ==
  /\ ms.proc = "running"
  /\ ms.pc = "listed"
  /\ ms' = [ ms EXCEPT !.pc = "blocked",
                       !.down = IF @ = "waiting" THEN "handlers" ELSE @ ]
  /\ UNCHANGED <<idvars, pvars, stamp, sd, db>>

\* One of the exit signals starts the exit handlers.
SyncSignal ==
  /\ ms.proc = "running"
  /\ ms.down = "waiting"
  /\ ms' = [ ms EXCEPT !.down = "handlers" ]
  /\ UNCHANGED <<idvars, pvars, stamp, sd, db>>

\* The exit handler db.Close: db.mu.Lock(), db.DB.Close(), db.DB = nil.
CloseHandler ==
  /\ ms.proc = "running"
  /\ ms.down = "handlers"
  /\ ms.mu = "free"
  /\ ms' = [ ms EXCEPT !.down = "closed", !.handle = Close(ms.handle).handle ]
  /\ UNCHANGED <<idvars, pvars, stamp, sd, db>>

\* os.Exit of the shutdown goroutine: behind the handlers, or at the
\* deadline of the context.
SyncExit ==
  /\ ms.proc = "running"
  /\ ms.down \in { "handlers", "closed" }
  /\ ms' = [ ms EXCEPT !.proc = "exited" ]
  /\ UNCHANGED <<idvars, pvars, stamp, sd, db>>

SyncNext ==
  \/ scanDirEntries \/ scanInbox \/ loadMessage \/ PutBegin \/ PutReturn
  \/ WaitReady \/ printMessageList \/ MainShutdown
  \/ SyncSignal \/ CloseHandler \/ SyncExit

----------------------------------------------------------------------------
(* Specifications                                                          *)

\* The parser is not running in the identifier specification.
ParserIdle ==
  /\ secs = << >> /\ stream = << >> /\ src = [ chunk |-> 1, eofWith |-> FALSE, failAt |-> -1, sticky |-> TRUE ]
  /\ srcsize = 0 /\ pretime = idEpochBase /\ m = NewMessage(idEpochBase)
  /\ cr = NewCr /\ br = NewBr(0) /\ cur = NoLine /\ lineno = 0 /\ fileno = 0
  /\ res = [ kind |-> "idle", line |-> 0 ] /\ marks = << >>
  /\ run = 1 /\ variant = "none" /\ prev = [ res |-> Running ]

\* The encoder is not running in the parser specification.
EncoderIdle ==
  /\ eid = << >> /\ bp = << >> /\ dst = << >> /\ n = 0 /\ out = << >>
  /\ epc = "idle"

\* UpdateIdFromTime, the shutdown and the index are not running.
StampIdle == stamp = [ pc |-> "idle" ]

ShutdownIdle == sd = [ pc |-> "idle" ]

IndexIdle == db = [ pc |-> "idle" ]

SyncIdle == ms = [ pc |-> "idle" ]

OthersIdle == StampIdle /\ ShutdownIdle /\ IndexIdle /\ SyncIdle

InitId == IdInit /\ ParserIdle /\ OthersIdle

\* The identifier encoder alone.
SpecId == InitId /\ [][IdNext]_vars

InitParse == ParseInitOver(SectionLists) /\ EncoderIdle /\ OthersIdle

\* One parse of every stream.
SpecParse == InitParse /\ [][ParseNext]_vars

InitTwice == ParseInitOver(TwiceLists) /\ EncoderIdle /\ OthersIdle

\* A parse and a second parse of the same input.
SpecTwice == InitTwice /\ [][TwiceNext]_vars

InitLines == ParseInitFrom(LineLists, PlainSources) /\ EncoderIdle /\ OthersIdle

\* One parse of every stream of lines, io.EOF coming after the last bytes.
SpecLines == InitLines /\ [][ParseNext]_vars

InitAgain == ParseInitFrom(AgainLists, PlainSources) /\ EncoderIdle /\ OthersIdle

\* A parse of every stream of repeated headers, and a second parse of it with
\* another size hint or into the same Message.
SpecAgain == InitAgain /\ [][AgainNext]_vars

InitStamp ==
  StampInit /\ ParserIdle /\ EncoderIdle /\ ShutdownIdle /\ IndexIdle
    /\ SyncIdle

\* UpdateIdFromTime alone.
SpecStamp == InitStamp /\ [][StampNext]_vars

InitShutdown ==
  ShutdownInit /\ ParserIdle /\ EncoderIdle /\ StampIdle /\ IndexIdle
    /\ SyncIdle

\* One shutdown of a process with every list of exit handlers.
SpecShutdown == InitShutdown /\ [][ShutdownNext]_vars

\* The same with the steps that do not wait for a handler taken in the end:
\* the goroutine runs on, and the deadline of the context passes.
SpecShutdownFair ==
  /\ SpecShutdown
  /\ WF_vars(ResetSignals) /\ WF_vars(Timeout)
  /\ WF_vars(WaitHandler) /\ WF_vars(WaitDone) /\ WF_vars(Exit)

InitIndex ==
  IndexInit /\ ParserIdle /\ EncoderIdle /\ StampIdle /\ ShutdownIdle
    /\ SyncIdle

\* Every sequence of PutMessage calls on an empty index.
SpecIndex == InitIndex /\ [][IndexNext]_vars

InitSync ==
  SyncInit /\ ParserIdle /\ EncoderIdle /\ StampIdle /\ ShutdownIdle
    /\ IndexIdle

\* The list command over every inbox, with a signal at any time.
SpecSync == InitSync /\ [][SyncNext]_vars

\* The same with the scanner, the loaders and main running on.
SpecSyncFair ==
  /\ SpecSync
  /\ WF_vars(scanDirEntries) /\ WF_vars(scanInbox) /\ WF_vars(loadMessage)
  /\ WF_vars(PutBegin) /\ WF_vars(PutReturn) /\ WF_vars(WaitReady)

InitIO == ParseInitFrom(IOLists, FailingSources) /\ EncoderIdle /\ OthersIdle

\* One parse of every stream from a source that fails.
SpecIO == InitIO /\ [][IONext]_vars

Init == InitId \/ InitParse

Next == IdNext \/ TwiceNext

Spec == Init /\ [][Next]_vars

----------------------------------------------------------------------------
(* Claims                                                                  *)

\* The digits EncodeId has written: the sentinel and everything behind it.
IdDigits == SubSeq(dst, n + 1, DstLen)

\* b * 62 + carry on a big-endian byte string, from byte i down to byte 1;
\* << >> when the result does not fit.
RECURSIVE MulAdd(_,_,_)
MulAdd(b, i, carry) ==
  IF i = 0 THEN (IF carry = 0 THEN b ELSE << >>)
  ELSE LET v == b[i] * dstBase + carry
       IN  MulAdd([ b EXCEPT ![i] = v % 256 ], i - 1, v \div 256)

\* The 24-byte big-endian value a digit string denotes, read most significant
\* digit first; << >> when a character is no digit or the value does not fit.
RECURSIVE DecodeFrom(_,_,_)
DecodeFrom(s, i, acc) ==
  IF acc = << >> THEN << >>
  ELSE IF i > Len(s) THEN acc
  ELSE IF ~IsBase62(s[i]) THEN << >>
  ELSE DecodeFrom(s, i + 1, MulAdd(acc, IdLen, Base62Index(s[i])))

Decode(s) == DecodeFrom(s, 1, [ i \in 1..IdLen |-> 0 ])

\* C1: the digits EncodeId writes, read most significant first over the
\* alphabet 0-9A-Za-z, denote exactly the 192-bit big-endian value of the id:
\* decoding them gives the id back (so no two ids share a digit string).
C1_RoundTrip == epc = "done" => Decode(IdDigits) = eid

C1_Witness ==
  /\ epc = "done"
  /\ eid = [ i \in 1..IdLen |-> 255 ]
  /\ Decode(IdDigits) = eid

\* C2: the string returned is at most 50 characters of the base-62 alphabet:
\* the sentinel '0', then the digits of the value without leading zero digits,
\* and no byte in front of the sentinel.
C2_OnlySentinelAndDigits ==
  epc = "done" =>
    /\ Len(out) <= DstLen
    /\ \A i \in 1..Len(out) : IsBase62(out[i])
    /\ out = IdDigits
    /\ Len(out) >= 2
    /\ out[1] = "0"
    /\ (out[2] = "0" => Len(out) = 2)


Done == res.kind \notin { "running", "idle" }

BothOk == run = 2 /\ res.kind = "ok" /\ prev.res.kind = "ok"

\* The marks of the attachments, in the order of m.files.
FileMarks == SelectSeq(marks, LAMBDA k : k.kind = "file")

BodyMarks == SelectSeq(marks, LAMBDA k : k.kind = "body")

\* The bytes of the stream that have not been handed to the parser yet.
Remaining == Len(stream) - TrueOffset(br, cr)

CountAt(a) == Cardinality({ i \in 1..Len(a) : a[i] = "@" })

\* C3: two parses of the same bytes, each into a fresh Message with the same
\* time set before, end in the same outcome, and on success in the same id,
\* subject, from, to, body and attachment descriptors, however the two
\* sources hand the bytes out.
C3_Deterministic ==
  (run = 2 /\ variant = "delivery" /\ Done) =>
     /\ res = prev.res
     /\ res.kind = "ok" =>
          /\ m.id = prev.m.id
          /\ m.subject = prev.m.subject
          /\ m.from = prev.m.from
          /\ m.to = prev.m.to
          /\ m.body = prev.m.body
          /\ m.files = prev.m.files

\* C4: every byte the source has handed out is counted in nread and written
\* to the digest, whatever error came with it; so after a parse to the end of
\* the stream nread is the stream's length and the digest is that of the
\* whole stream.
C4_CountsAndHashesEveryByte ==
  res.kind # "idle" =>
     /\ cr.nread = cr.off
     /\ cr.hash = SubSeq(stream, 1, cr.off)
     /\ res.kind = "ok" => (cr.nread = Len(stream) /\ m.id.digest = Sum(stream))

C6_AttachmentOffsets ==
  res.kind # "idle" =>
     /\ Len(m.files) = Len(FileMarks)
     /\ \A i \in 1..Len(m.files) :
          /\ m.files[i].dataStart = FileMarks[i].start
          /\ m.files[i].dataLen = FileMarks[i].size
          /\ m.files[i].dataStart + m.files[i].dataLen <= cr.off
          /\ i > 1 => m.files[i - 1].dataStart < m.files[i].dataStart

\* C7: a body or file section takes exactly `size` bytes behind its header
\* line: they are the next bytes of the stream, a body gets them unchanged
\* whatever they are, and the next line is read from the byte behind them.
C7_PayloadExact ==
  /\ \A i \in 1..Len(marks) :
       /\ marks[i].start >= 1
       /\ stream[marks[i].start] = "\n" \/ marks[i].start = Len(stream)
       /\ marks[i].end = marks[i].start + marks[i].size
       /\ marks[i].end <= Len(stream)
       /\ marks[i].kind = "body" =>
            marks[i].data =
              SubSeq(stream, marks[i].start + 1, marks[i].start + marks[i].size)
       /\ i < Len(marks) => marks[i].end < marks[i + 1].start
  /\ (Len(BodyMarks) > 0 /\ res.kind \in { "running", "ok" }) =>
       m.body = BodyMarks[Len(BodyMarks)].data
  /\ (res.kind = "running" /\ ~cur.have /\ Len(marks) > 0) =>
       TrueOffset(br, cr) >= marks[Len(marks)].end

\* The payload of the body is `file 1` and a newline; it became the body, no
\* attachment, and the parse went on to the end of the stream behind it.
C7_Witness ==
  /\ res.kind = "ok"
  /\ secs = << 7, 9 >>
  /\ m.body = kwFile \o SP \o << "1" >> \o NL
  /\ Len(m.files) = 1
  /\ Len(marks) = 2
  /\ marks[2].start = marks[1].end + 9

\* The size a `body` header declares.
DeclaredBody == ParseUint(TrimSpace(Value(cur)))

AtBody == res.kind = "running" /\ cur.have /\ AtField(cur, "FIELD_BODY")

AtFile == res.kind = "running" /\ cur.have /\ AtField(cur, "FIELD_FILE")

\* C8: a `body` header that declares more than 8 MiB fails with the
\* body-too-large error, with no byte read and m.body as it was; one that
\* declares exactly 8 MiB does not fail so.
C8_BodyLimit ==
  [][ (AtBody /\ DeclaredBody.err = "nil") =>
        IF DeclaredBody.val > 8 * 1024 * 1024
          THEN /\ res'.kind = "BodyTooLarge"
               /\ m' = m /\ cr' = cr /\ br' = br
          ELSE res'.kind # "BodyTooLarge" ]_vars

C8_Witness ==
  /\ res.kind = "BodyTooLarge"
  /\ secs = << 6, 13 >>
  /\ m.body = << "a", "b" >>
  /\ TrueOffset(br, cr) = Len(stream)

\* The size a `file` header declares.
DeclaredFile == ParseUint(FileSize(TrimSpace(Value(cur))))

\* C9: a `body` or `file` header that declares more bytes than the stream
\* still has makes ParseReader return an error: for a body the one
\* io.ReadFull reports for a short read, with m.body empty afterwards; for a
\* file the truncated-attachment error with the attachment's 1-based ordinal
\* and declared name, with no attachment appended.
C9_Truncated ==
  [][ /\ (AtBody /\ DeclaredBody.err = "nil"
            /\ DeclaredBody.val <= MAX_BODY_SIZE
            /\ DeclaredBody.val > Remaining) =>
         /\ res'.kind \in { "EOF", "ErrUnexpectedEOF" }
         /\ Len(m'.body) = 0
         /\ m'.files = m.files
      /\ (AtFile /\ DeclaredFile.err = "nil"
            /\ DeclaredFile.val > Remaining) =>
         /\ res'.kind = "TruncatedAttachment"
         /\ res'.fileno = Len(m.files) + 1
         /\ res'.name = FileName(TrimSpace(Value(cur)))
         /\ m'.files = m.files
         /\ m'.body = m.body ]_vars

\* C10: an address stored by a successful parse has exactly one '@' and is
\* in lower case.
C10_AddressInvariant ==
  res.kind = "ok" =>
     \A a \in { m.from.address, m.to.address } :
        Len(a) > 0 => (CountAt(a) = 1 /\ a = ToLower(a))

\* The first word of a line: what precedes its first space.
WordEnd(s) ==
  IF \E i \in 1..Len(s) : s[i] = " "
    THEN (CHOOSE i \in 1..Len(s) :
            s[i] = " " /\ \A j \in 1..(i - 1) : s[j] # " ") - 1
    ELSE Len(s)

FirstWord(s) == SubSeq(s, 1, WordEnd(s))

\* A whole line has been read and waits for its dispatch.
AtLine == res.kind = "running" /\ cur.have /\ cur.err = "nil" /\ ~cur.isPrefix

\* The step skips the line: nothing of the message changes and no byte is read.
LineSkipped ==
  /\ res' = res /\ m' = m /\ br' = br /\ cr' = cr /\ marks' = marks
  /\ fileno' = fileno

\* C11: an empty line is skipped; a line that begins with a space is the
\* invalid-leading-space error; a line whose key is subject, from, to, time,
\* body or file is handled as that field; a key that begins with x- is
\* ignored, with no change of the message and no byte read; any other key
\* is the unknown-field error. After a line that is no error the next line is
\* read, and only the end of the stream, met while a line is read, ends the
\* parse with success.
C11_LineDispatch ==
  [][ /\ (AtLine /\ Len(cur.line) = 0) => LineSkipped
      /\ (AtLine /\ Len(cur.line) > 0 /\ cur.line[1] = " ") =>
           res'.kind = "InvalidLeadingSpace"
      /\ (AtLine /\ FirstWord(cur.line) = kwSubject) => FieldSubject
      /\ (AtLine /\ FirstWord(cur.line) = kwFrom) => FieldFrom
      /\ (AtLine /\ FirstWord(cur.line) = kwTo) => FieldTo
      /\ (AtLine /\ FirstWord(cur.line) = kwTime) => FieldTime
      /\ (AtLine /\ FirstWord(cur.line) = kwBody) => FieldBody
      /\ (AtLine /\ FirstWord(cur.line) = kwFile) => FieldFile
      /\ (AtLine /\ Len(cur.line) > 0 /\ cur.line[1] # " "
            /\ FirstWord(cur.line) \notin
                 { kwSubject, kwFrom, kwTo, kwTime, kwBody, kwFile }) =>
           IF HasPrefix(FirstWord(cur.line), << "x", "-" >>)
             THEN LineSkipped
             ELSE res'.kind = "UnknownField"
      /\ (AtLine /\ res'.kind = "running") => ~cur'.have
      /\ (res.kind = "running" /\ res'.kind = "ok") =>
           (cur.have /\ cur.err = "EOF") ]_vars

\* An x- line was ignored and the line behind it was handled.
C11_Witness ==
  /\ res.kind = "ok"
  /\ secs = << 18, 1 >>
  /\ m.subject = << "H", "i" >>
  /\ lineno = 3

\* The stream has a section with the keyword kw.
HasSection(kw) ==
  \E i \in 1..Len(secs) : FirstWord(Sections[secs[i]]) = kw

\* C12: a stream that ParseReader accepts has a subject, a from, a to and a
\* body section.
C12_RequiredSections ==
  res.kind = "ok" =>
     \A kw \in { kwSubject, kwFrom, kwTo, kwBody } : HasSection(kw)

\* C13: the line `subject<TAB>Hi` is parsed as the line `subject Hi` is: the
\* parse of a stream of this one line succeeds with the subject Hi.
C13_TabSeparator ==
  (Done /\ secs = << 22 >>) =>
     (res.kind = "ok" /\ m.subject = << "H", "i" >>)

\* C14: when ParseReader returns an error, m.id is what it was before the
\* call (here: the id of a fresh Message).
C14_IdOnlyOnSuccess ==
  (Done /\ res.kind # "ok") => m.id = NewMessage(pretime).id

\* The number of newline bytes among the first k bytes of the stream.
NewlinesTo(k) == Cardinality({ i \in 1..k : stream[i] = "\n" })

\* The 1-based number, among the lines of the stream, of the line that has
\* just been read (the buffered reader stands behind it).
HeaderLine ==
  NewlinesTo(TrueOffset(br, cr))
    + (IF TrueOffset(br, cr) > 0 /\ stream[TrueOffset(br, cr)] = "\n"
         THEN 0 ELSE 1)

\* The errors of a header line or its payload; a body cut short comes as the
\* error of io.ReadFull.
HeaderErrors ==
  { "InvalidLeadingSpace", "UnknownField", "FieldTooLong", "InvalidAddress",
    "InvalidTimeFormat", "InvalidSize", "BodyTooLarge", "EOF",
    "ErrUnexpectedEOF", "TruncatedAttachment" }

\* C15: an error caused by a header line or its payload names the source and
\* the 1-based number of the header's line in the stream.
C15_ErrorsNameTheLine ==
  [][ (res.kind = "running" /\ cur.have /\ cur.err = "nil"
         /\ res'.kind \in HeaderErrors) =>
        res'.line = HeaderLine ]_vars

\* C16 as stated: UpdateIdFromTime succeeds exactly for the times from
\* idEpochBase to idEpochBase + 2^32 - 1; then IdTime is the time and the
\* digest is as before; an earlier time is the timestamp-in-the-past error, a
\* later one the timestamp-out-of-range error.
C16_TimeFieldExact ==
  stamp.pc = "done" =>
     /\ stamp.time.top = 0 =>
          /\ stamp.err = "nil"
          /\ IdTime(stamp.id) = stamp.time
          /\ stamp.id.digest = stamp.before.digest
     /\ stamp.time.top < 0 => stamp.err = "TimestampInPast"
     /\ stamp.time.top > 0 =>
          (stamp.err = "TimestampOutOfRange" /\ stamp.id = stamp.before)

\* The sections that a source without failure parses to the end.
GoodSections == { 1, 2, 4, 6, 9, 16, 18 }

\* C17: when the source has reported an I/O error, the parse of a stream
\* that holds nothing the parser rejects ends with this error, as the source
\* gave it.
C17_IOFailureReturned ==
  (Done /\ cr.failed /\ \A i \in 1..Len(secs) : secs[i] \in GoodSections) =>
     res.kind = "EIO"

\* Handler i has returned an error or panicked.
Failed(i) == sd.st[i] \in { "failed", "recovered" }

\* The handlers that the shutdown has invoked.
Invoked == IF sd.pc \in { "loop", "exited" } THEN 1..Len(sd.handlers) ELSE { }

\* A handler that returns an error or panics leaves the process running with
\* the shutdown context cancelled, and the process then exits with a code
\* that is not 0: with 1 when the requested code is 0, else with the
\* requested code.
FailureIsolated ==
  /\ (\E i \in Invoked : Failed(i)) => sd.ctx # "live"
  /\ (sd.pc = "exited" /\ \E i \in Invoked : Failed(i)) =>
       sd.code = (IF sd.exitExitCode = 0 THEN 1 ELSE sd.exitExitCode)

\* C18 as stated: failures of handlers are isolated, and when every handler
\* has returned nil before the deadline of the context the process exits
\* with the requested code.
C18_ExitHandlers ==
  /\ FailureIsolated
  /\ (sd.pc = "exited" /\ \A i \in Invoked : sd.timely[i]) =>
       sd.code = sd.exitExitCode

\* C18 amended: failures of handlers are isolated, and when the wait loop has
\* received the completion of every handler the process exits with the
\* requested code, 0 for a signal.
C18_ExitHandlersReceived ==
  /\ FailureIsolated
  /\ (sd.pc = "exited" /\ \A i \in Invoked : sd.st[i] = "done") =>
       sd.code = sd.exitExitCode

\* A shutdown requested with code 0 has exited with 1 behind a handler that
\* panicked, next to a handler whose completion was received.
C18_Witness ==
  /\ sd.pc = "exited"
  /\ sd.exitExitCode = 0
  /\ sd.code = 1
  /\ \E i \in Invoked : sd.st[i] = "recovered"
  /\ \E i \in Invoked : sd.st[i] = "done"

\* The rows of the two tables are unique in their primary keys.
KeysUnique ==
  /\ \A r, o \in db.messages : r.id = o.id => r = o
  /\ \A r, o \in db.authors : r.address = o.address => r = o

\* C19 as stated: the keys are unique, and the name stored for an address is
\* the from.name of the most recent PutMessage for that address.
C19_LastWriteWins ==
  db.pc = "open" =>
    /\ KeysUnique
    /\ \A r \in db.authors :
         db.recent[r.address] # Never => r.name = db.recent[r.address]

\* C19 amended: the keys are unique, and the name stored for an address is
\* the latest name that is not empty among the calls whose statement on
\* authors ran for that address, the empty name when these calls all had the
\* empty name, and there is no row when there was no such call.
C19_LastNameWins ==
  db.pc = "open" =>
    /\ KeysUnique
    /\ \A r \in db.authors : r.name = db.named[r.address]
    /\ \A a \in IndexAddresses :
         db.named[a] # Never => \E r \in db.authors : r.address = a

\* An address was put with one name and then with another, both calls
\* returned nil, and the row holds the second name next to two messages.
C19_Witness ==
  /\ db.pc = "open"
  /\ db.last = "nil"
  /\ \E r \in db.authors :
       r.name = "Bo" /\ db.recent[r.address] = "Bo" /\
       \A i \in IndexIds : [ id |-> i, fromaddr |-> r.address ] \in db.messages

\* The size token of the `file` line at hand, as strconv.ParseUint reads it.
SizeAtHand == ParseUint(FileSize(TrimSpace(Value(cur))))

\* C20: a `file` line whose size token is no number or does not fit an int
\* ends the parse with an error value; the parser never panics and never
\* records an attachment of negative length.
C20_InvalidFileSize ==
  /\ [](res.kind # "panic")
  /\ [](\A i \in 1..Len(m.files) : m.files[i].dataLen >= 0)
  /\ [][(FieldFile /\ (SizeAtHand.err # "nil" \/ SizeAtHand.wraps)) =>
          res'.kind \notin { "running", "ok", "panic" }]_vars

\* The index in secs of the last section that is header k, 0 when there is
\* none.
LastOf(ks) ==
  IF \E i \in 1..Len(secs) : secs[i] \in ks
    THEN CHOOSE i \in 1..Len(secs) :
           secs[i] \in ks /\ \A j \in (i + 1)..Len(secs) : secs[j] \notin ks
    ELSE 0

\* The last header among the sections ks is section k.
LastIs(ks, k) == LastOf(ks) # 0 /\ secs[LastOf(ks)] = k

\* The stream is made of `subject`, `from` and `to` headers only.
OnlyHeaders == \A i \in 1..Len(secs) : secs[i] \in { 1, 2, 28, 29, 30, 31 }

\* C21: after a successful parse of repeated headers, subject is the value of
\* the last `subject` header, and from and to hold the address and the name
\* of the last `from` and `to` header, an empty name when it carries none.
C21_LastHeaderWins ==
  (run = 1 /\ res.kind = "ok" /\ OnlyHeaders) =>
     /\ LastIs({ 1, 29 }, 1) => m.subject = << "H","i" >>
     /\ LastIs({ 1, 29 }, 29) => m.subject = << "Y","o" >>
     /\ LastIs({ 2, 28 }, 2) =>
          m.from = [ address |-> << "a","@","b" >>, name |-> << "A","l" >> ]
     /\ LastIs({ 2, 28 }, 28) =>
          m.from = [ address |-> << "c","@","d" >>, name |-> << >> ]
     /\ LastIs({ 30, 31 }, 30) =>
          m.to = [ address |-> << "e","@","f" >>, name |-> << "B","o" >> ]
     /\ LastIs({ 30, 31 }, 31) =>
          m.to = [ address |-> << "c","@","d" >>, name |-> << >> ]

\* C22: two parses of a stream with different size hints, each into a fresh
\* Message, return the same error or the same Message.
C22_HintIndependent ==
  (run = 2 /\ variant = "hint" /\ Done) =>
     /\ res = prev.res
     /\ res.kind = "ok" => m = prev.m

\* C23: a parse into the Message that holds the result of an earlier parse
\* gives the subject, from, to, body and attachments that the parse into a
\* fresh Message gives.
C23_PriorContents ==
  (run = 2 /\ variant = "reuse" /\ res.kind = "ok") =>
     /\ m.subject = prev.m.subject
     /\ m.from = prev.m.from
     /\ m.to = prev.m.to
     /\ m.body = prev.m.body
     /\ m.files = prev.m.files

\* The shutdown has been triggered, by a signal or by Shutdown.
Triggered == sd.pc \in { "closed", "loop" }

\* The handlers are all started with the shutdown, and none is started again.
StartedOnce ==
  /\ (sd.pc \in { "waiting", "closed" } /\ sd'.pc = "loop") =>
        \A i \in 1..Len(sd.handlers) : sd'.st[i] = "invoked"
  /\ sd.pc = "loop" =>
        \A i \in 1..Len(sd.handlers) :
           sd.st[i] # "invoked" => sd'.st[i] # "invoked"

\* Behind the start of the handlers os.Exit is reached, whatever the handlers
\* do.
LoopExits == (sd.pc = "loop") ~> (sd.pc = "exited")

\* C24: once the shutdown is triggered every handler is started once and
\* os.Exit is reached in the end, whatever the handlers do.
C24_ShutdownCompletes ==
  /\ [][StartedOnce]_vars
  /\ Triggered ~> (sd.pc = "exited")

\* C26: when PutMessage returns, its transaction is committed or rolled back
\* and the mutex is free, and when it returns an error the tables are as they
\* were before the call.
C26_PutMessageAtomic ==
  [][PutMessage =>
       /\ db'.tx # "open"
       /\ db'.mu = "free"
       /\ db'.last # "nil" =>
            (db'.messages = db.messages /\ db'.authors = db.authors)]_vars

\* C25: behind WaitReady every .msg file of the inbox is loaded, stored
\* through a PutMessage that has returned or reported as failed, the list
\* without -nowait does not read the index while a loader is pending, and
\* WaitReady returns in the end unless the process exits before.
C25_WaitReady ==
  /\ []((~ms.nowait /\ ms.pc \in { "query", "listed", "blocked" }) =>
          /\ Len(ms.ld) = Len(ms.files)
          /\ \A i \in 1..Len(ms.ld) :
               ms.ld[i] \in { "skipped", "stored", "failed" })
  /\ [](~ms.nowait => ~ms.early)
  /\ (ms.pc = "cmd" /\ ~ms.nowait) ~> (ms.pc # "cmd" \/ ms.proc = "exited")

\* C27: neither a PutMessage nor the list query runs on the closed handle,
\* and Close on a closed handle returns nil and leaves it closed.
C27_NoUseAfterClose ==
  /\ ms.pc # "idle" => ~ms.onNil
  /\ Close("nil") = [ handle |-> "nil", err |-> "nil" ]
====
